---- MODULE Spec2Model ----
(***************************************************************************)
(* A model of QuickPlot's add_curly_brace (src/utils/add_curly_brace.py).  *)
(*                                                                         *)
(* Numbers.  The code computes in IEEE double precision.  The model        *)
(* computes in decimal fixed point: the real number x is the integer       *)
(* round(x * Scale).  The three non-finite doubles are the strings "inf",  *)
(* "-inf" and "nan".  Every numpy function the code calls (log, exp, cos,  *)
(* sin, arctan2, hypot, degrees, linspace) is computed here by the series  *)
(* that defines it, so that a result is right to a few units of 1/Scale,   *)
(* as the code's results are right to a few units of 2^-52.  Two results   *)
(* the code's documentation calls equal are compared with Close, which     *)
(* allows that rounding and nothing more.  The sign of a zero is not kept. *)
(***************************************************************************)
EXTENDS Integers, Sequences, FiniteSets, TLC

\* One unit of the fixed point is 1/Scale.
Scale == 10 * 1000

\* The fixed-point value of the integer n.
Fix(n) == n * Scale

Abs(a) == IF a < 0 THEN -a ELSE a

Sgn(a) == IF a > 0 THEN 1 ELSE IF a < 0 THEN -1 ELSE 0

Max(a, b) == IF a >= b THEN a ELSE b

Min(a, b) == IF a <= b THEN a ELSE b

\* a / b rounded to the nearest integer, b > 0.
RoundDiv(a, b) == (a + b \div 2) \div b

\* The product a c of two fixed-point numbers when a * c stays within the
\* 32-bit integers (both at most 4 in absolute value), rounded to nearest.
MulSmall(a, c) == RoundDiv(a * c, Scale)

\* The product x c of two fixed-point numbers, |c| at most 20: x is split
\* at Scale so that no intermediate product leaves the 32-bit integers.
MulBy(x, c) == (x \div Scale) * c + RoundDiv((x % Scale) * c, Scale)

\* The product of two finite fixed-point numbers, rounded to nearest.
MulFix(a, b) == (a \div Scale) * b + MulBy(b, a % Scale)

\* a / b for fixed-point numbers, 0 < b < 2000, rounded to nearest: long
\* division, two decimal digits at a time.
DivBy(a, b) ==
    LET r0 == (a % b) * 100
        r1 == (r0 % b) * 100
    IN  (a \div b) * Scale + (r0 \div b) * 100 + RoundDiv(r1, b)

\* The quotient of two finite fixed-point numbers, b # 0.
DivFix(a, b) == IF b > 0 THEN DivBy(a, b) ELSE DivBy(-a, -b)

(***************************************************************************)
(* numpy's elementary functions on finite fixed-point numbers.             *)
(***************************************************************************)

\* pi, pi/2, pi/4 and 2 pi.
Pi == (31416 * Scale) \div 10000

HalfPi == Pi \div 2

QuarterPi == Pi \div 4

TwoPi == 2 * Pi

\* sin x for |x| <= pi/4, by its Taylor series in Horner form:
\* x (1 - x^2/6 (1 - x^2/20 (1 - x^2/42))).
SinSeries(x) ==
    LET x2 == MulSmall(x, x)
        t3 == Scale - MulSmall(x2, Scale) \div 42
        t2 == Scale - MulSmall(x2, t3) \div 20
        t1 == Scale - RoundDiv(MulSmall(x2, t2), 6)
    IN  MulSmall(x, t1)

\* cos x for |x| <= pi/4: 1 - x^2/2 (1 - x^2/12 (1 - x^2/30 (1 - x^2/56))).
CosSeries(x) ==
    LET x2 == MulSmall(x, x)
        t4 == Scale - MulSmall(x2, Scale) \div 56
        t3 == Scale - MulSmall(x2, t4) \div 30
        t2 == Scale - RoundDiv(MulSmall(x2, t3), 12)
    IN  Scale - RoundDiv(MulSmall(x2, t2), 2)

\* x brought into (-pi, pi] by whole turns.
WrapPi(x) == Pi - ((Pi - x) % TwoPi)

\* sin x, finite x: wrapped into (-pi, pi], then to the nearest quarter turn.
SinFix(x) ==
    LET w == WrapPi(x)
    IN  IF Abs(w) <= QuarterPi THEN SinSeries(w)
        ELSE IF Abs(w - HalfPi) <= QuarterPi THEN CosSeries(w - HalfPi)
        ELSE IF Abs(w + HalfPi) <= QuarterPi THEN -CosSeries(w + HalfPi)
        ELSE IF w > 0 THEN -SinSeries(w - Pi)
        ELSE -SinSeries(w + Pi)

\* cos x, finite x.
CosFix(x) ==
    LET w == WrapPi(x)
    IN  IF Abs(w) <= QuarterPi THEN CosSeries(w)
        ELSE IF Abs(w - HalfPi) <= QuarterPi THEN -SinSeries(w - HalfPi)
        ELSE IF Abs(w + HalfPi) <= QuarterPi THEN SinSeries(w + HalfPi)
        ELSE IF w > 0 THEN -CosSeries(w - Pi)
        ELSE -CosSeries(w + Pi)

\* arctan w for 0 <= w <= tan(pi/8), by its series in Horner form:
\* w (1 - w^2 (1/3 - w^2 (1/5 - w^2 (1/7 - w^2 (1/9 - w^2/11))))).
AtanSeries(w) ==
    LET w2 == MulSmall(w, w)
        t5 == Scale \div 9 - MulSmall(w2, Scale \div 11)
        t4 == Scale \div 7 - MulSmall(w2, t5)
        t3 == Scale \div 5 - MulSmall(w2, t4)
        t2 == RoundDiv(Scale, 3) - MulSmall(w2, t3)
        t1 == Scale - MulSmall(w2, t2)
    IN  MulSmall(w, t1)

\* arctan z for 0 <= z <= 1: above tan(pi/8) by
\* arctan z = pi/4 - arctan((1 - z) / (1 + z)).
AtanUnit(z) ==
    IF 5 * z <= 2 * Scale THEN AtanSeries(z)
    ELSE QuarterPi - AtanSeries(DivBy(Scale - z, Scale + z))

\* The angle in [0, pi/2] of the direction (x, y), x >= 0, y >= 0, not both 0.
AtanQuadrant(y, x) ==
    IF y <= x THEN AtanUnit(DivBy(y, x)) ELSE HalfPi - AtanUnit(DivBy(x, y))

\* numpy.arctan2(y, x) for finite y and x: the angle in (-pi, pi] of the
\* direction (x, y); arctan2(0, 0) = 0.
Arctan2Fix(y, x) ==
    IF x = 0 /\ y = 0 THEN 0
    ELSE LET a == AtanQuadrant(Abs(y), Abs(x))
         IN  IF x >= 0 THEN (IF y >= 0 THEN a ELSE -a)
             ELSE (IF y >= 0 THEN Pi - a ELSE a - Pi)

RECURSIVE Pow2(_)
Pow2(k) == IF k = 0 THEN 1 ELSE 2 * Pow2(k - 1)

\* The integer square root of n >= 0, by bisection between lo and hi
\* (lo^2 <= n < hi^2).
RECURSIVE ISqrt(_, _, _)
ISqrt(n, lo, hi) ==
    IF hi - lo <= 1 THEN lo
    ELSE LET mid == (lo + hi) \div 2
         IN  IF mid * mid <= n THEN ISqrt(n, mid, hi) ELSE ISqrt(n, lo, mid)

\* sqrt v for a fixed-point 1 <= v <= 2, rounded to nearest.
SqrtUnit(v) ==
    LET n == v * Scale
        s == ISqrt(n, Scale, 2 * Scale)
    IN  IF n - s * s > s THEN s + 1 ELSE s

\* numpy.hypot(a, b) for finite a and b, scaled by the larger of the two so
\* that no square leaves the integers: m sqrt(1 + (n/m)^2).
HypotFix(a, b) ==
    LET m == Max(Abs(a), Abs(b))
        n == Min(Abs(a), Abs(b))
    IN  IF m = 0 THEN 0
        ELSE IF n = 0 THEN m
        ELSE LET z == DivBy(n, m)
             IN  MulFix(m, SqrtUnit(Scale + MulFix(z, z)))

\* ln 2, and k ln 2 for an integer k, rounded once (ln 2 = 0.693147...).
Ln2 == (6931 * Scale) \div 10000

KLn2(k) == Sgn(k) * RoundDiv(Abs(k) * 693147 * (Scale \div 10000), 100)

\* ln m for a fixed-point 1 <= m < 2, by ln m = 2 artanh((m - 1)/(m + 1)):
\* 2 w (1 + w^2 (1/3 + w^2 (1/5 + w^2 (1/7 + w^2/9)))).
LnUnit(m) ==
    LET w == DivBy(m - Scale, m + Scale)
        w2 == MulSmall(w, w)
        t4 == Scale \div 7 + MulSmall(w2, Scale \div 9)
        t3 == Scale \div 5 + MulSmall(w2, t4)
        t2 == RoundDiv(Scale, 3) + MulSmall(w2, t3)
        t1 == Scale + MulSmall(w2, t2)
    IN  MulSmall(2 * w, t1)

\* ln v for a fixed-point v >= 1: halved into [1, 2), one ln 2 a halving.
\* The number of halvings that bring v >= 1 into [1, 2).
RECURSIVE Halvings(_)
Halvings(v) == IF v < 2 * Scale THEN 0 ELSE 1 + Halvings(v \div 2)

\* ln v for a fixed-point v >= 1: v = 2^k m with 1 <= m < 2.
LnAbove(v) ==
    LET k == Halvings(v)
    IN  KLn2(k) + LnUnit(RoundDiv(v, Pow2(k)))

\* numpy.log(v) for a finite v > 0; below 1 by ln v = -ln(1/v).
LogFix(v) == IF v >= Scale THEN LnAbove(v) ELSE -LnAbove(DivBy(Scale, v))

\* e^f for |f| <= (ln 2)/2, by its Taylor series in Horner form.
ExpSeries(f) ==
    LET t5 == Scale + f \div 6
        t4 == Scale + MulSmall(f, t5) \div 5
        t3 == Scale + MulSmall(f, t4) \div 4
        t2 == Scale + MulSmall(f, t3) \div 3
        t1 == Scale + MulSmall(f, t2) \div 2
    IN  Scale + MulSmall(f, t1)

\* numpy.exp(w) for a finite w: e^w = 2^k e^f with w = k ln 2 + f.
ExpFix(w) ==
    LET k == (2 * w + Ln2) \div (2 * Ln2)
        e == ExpSeries(w - KLn2(k))
    IN  IF k >= 0 THEN Pow2(k) * e ELSE RoundDiv(e, Pow2(-k))

(***************************************************************************)
(* IEEE arithmetic: the finite numbers and inf, -inf, nan.  The three are  *)
(* integers no finite result of the model comes near.                      *)
(***************************************************************************)

Inf == 2 * 1000 * 1000 * 1000

NaN == Inf + 1000

IsNaN(a) == a = NaN

IsInf(a) == a = Inf \/ a = -Inf

IsFin(a) == -Inf < a /\ a < Inf

\* -a.
NegF(a) == IF IsNaN(a) THEN NaN ELSE -a

\* abs(a).
AbsF(a) == IF IsNaN(a) THEN NaN ELSE Abs(a)

\* a + b: inf + (-inf) is nan.
AddF(a, b) ==
    IF IsFin(a) /\ IsFin(b) THEN a + b
    ELSE IF IsNaN(a) \/ IsNaN(b) THEN NaN
    ELSE IF IsInf(a) /\ IsInf(b) THEN (IF a = b THEN a ELSE NaN)
    ELSE IF IsInf(a) THEN a ELSE b

\* a - b.
SubF(a, b) == AddF(a, NegF(b))

\* a * b: 0 * inf is nan.
MulF(a, b) ==
    IF IsFin(a) /\ IsFin(b) THEN MulFix(a, b)
    ELSE IF IsNaN(a) \/ IsNaN(b) THEN NaN
    ELSE IF a = 0 \/ b = 0 THEN NaN
    ELSE Sgn(a) * Sgn(b) * Inf

\* a / b as numpy's float64 divides: x / 0 is inf or -inf, 0 / 0 and
\* inf / inf are nan, and nothing is raised.
DivF(a, b) ==
    IF IsNaN(a) \/ IsNaN(b) THEN NaN
    ELSE IF IsInf(a) THEN (IF IsInf(b) THEN NaN
                           ELSE IF b < 0 THEN -a ELSE a)
    ELSE IF IsInf(b) THEN 0
    ELSE IF b = 0 THEN (IF a = 0 THEN NaN ELSE Sgn(a) * Inf)
    ELSE DivFix(a, b)

\* The comparisons: every comparison with nan is false.
GtF(a, b) == ~IsNaN(a) /\ ~IsNaN(b) /\ a > b

LtF(a, b) == ~IsNaN(a) /\ ~IsNaN(b) /\ a < b

GeF(a, b) == ~IsNaN(a) /\ ~IsNaN(b) /\ a >= b

LeF(a, b) == ~IsNaN(a) /\ ~IsNaN(b) /\ a <= b

\* numpy.cos and numpy.sin: nan off the finite numbers.
CosF(a) == IF IsFin(a) THEN CosFix(a) ELSE NaN

SinF(a) == IF IsFin(a) THEN SinFix(a) ELSE NaN

\* numpy.arctan2(y, x).
Arctan2F(y, x) ==
    IF IsNaN(y) \/ IsNaN(x) THEN NaN
    ELSE IF IsFin(y) /\ IsFin(x) THEN Arctan2Fix(y, x)
    ELSE IF IsInf(y) /\ IsInf(x)
         THEN Sgn(y) * (IF x > 0 THEN QuarterPi ELSE Pi - QuarterPi)
    ELSE IF IsInf(y) THEN Sgn(y) * HalfPi
    ELSE IF x > 0 THEN 0
    ELSE IF y >= 0 THEN Pi ELSE -Pi

\* numpy.hypot(a, b): inf when either is infinite.
HypotF(a, b) ==
    IF IsInf(a) \/ IsInf(b) THEN Inf
    ELSE IF IsNaN(a) \/ IsNaN(b) THEN NaN
    ELSE HypotFix(a, b)

\* numpy.log(v) for v > 0.
LogF(v) == IF v = Inf THEN Inf ELSE LogFix(v)

\* numpy.exp(w), w not nan.
ExpF(w) == IF w = Inf THEN Inf ELSE IF w = -Inf THEN 0 ELSE ExpFix(w)

\* numpy.degrees(a).
DegreesF(a) == IF IsFin(a) THEN DivFix(a * 180, Pi) ELSE NaN

\* a % m for a finite m > 0, with the sign of m (Python's float %).
ModF(a, m) == IF IsFin(a) THEN a % m ELSE NaN

\* numpy.linspace(start, stop, num)[i], i = 1 .. num: evenly spaced, both
\* ends included, the last point set to stop itself.
Linspace(start, stop, num, i) ==
    IF ~IsFin(start) \/ ~IsFin(stop) THEN NaN
    ELSE IF i = num THEN stop
    ELSE start + Sgn(stop - start) * RoundDiv(Abs(stop - start) * (i - 1), num - 1)

(***************************************************************************)
(* add_curly_brace.                                                        *)
(*                                                                         *)
(* An axes is [xscale, yscale, xlim, ylim, width, height]: the names of    *)
(* its two scales, its two pairs of limits and its size in pixels.         *)
(***************************************************************************)

\* The number of samples of every arc.
NumSamples == 50

\* _get_ax_size(fig, ax): the width and the height of the axes in pixels.
GetAxSize(a) == <<a.width, a.height>>

\* "log" in scale, for the scales matplotlib names.
HasLog(scale) == scale \in {"log", "symlog"}

\* The transform of one coordinate on a logarithmic axis.
SignedLog(v) ==
    IF GtF(v, 0) THEN LogF(v)
    ELSE IF LtF(v, 0) THEN NegF(LogF(AbsF(v)))
    ELSE 0

\* What the code applies to one output coordinate on a logarithmic axis.
SignedExp(w) ==
    IF GtF(w, 0) THEN ExpF(w)
    ELSE IF LtF(w, 0) THEN NegF(ExpF(AbsF(w)))
    ELSE 0

\* A coordinate v of p1 or p2 on an axis of the given scale.
Transformed(scale, v) == IF HasLog(scale) THEN SignedLog(v) ELSE v

\* The limits of an axis of the given scale, each transformed as the points.
TransformedLim(scale, lim) ==
    IF HasLog(scale) THEN <<SignedLog(lim[1]), SignedLog(lim[2])>> ELSE lim

\* The pixel / length ratio of an axis: 1 when bool_auto is off.
PixelScale(size, lim, bool_auto) ==
    IF bool_auto THEN DivF(size, AbsF(SubF(lim[2], lim[1]))) ELSE Scale

\* A transformed coordinate in pixels: the lower limit taken off, scaled.
ToPixels(v, lim, scale) == MulF(SubF(v, lim[1]), scale)

\* theta: the angle of p1 -> p2 in pixels.
BraceAngle(pt1, pt2) == Arctan2F(SubF(pt2[2], pt1[2]), SubF(pt2[1], pt1[1]))

\* r: the radius of the four arcs.
\* A radius that takes the size of k_r and drops its sign; add_curly_brace
\* does not do this, and the property of C8 tells the two apart.
BraceRadiusAbs(pt1, pt2, k_r) ==
    MulF(HypotF(SubF(pt2[1], pt1[1]), SubF(pt2[2], pt1[2])), Abs(k_r))

BraceRadius(pt1, pt2, k_r) ==
    MulF(HypotF(SubF(pt2[1], pt1[1]), SubF(pt2[2], pt1[2])), k_r)

\* The centres of the four arcs, in pixels: <<x11, y11>> to <<x44, y44>>.
Centre1(pt1, pt2, r, theta) ==
    <<AddF(pt1[1], MulF(r, CosF(theta))), AddF(pt1[2], MulF(r, SinF(theta)))>>

\* A second centre that stands r, not 2r, off the line from p1 to p2;
\* the property of C4 tells it from the centre of lines 263 and 264.
Centre2Single(pt1, pt2, r, theta) ==
    <<SubF(SubF(DivF(AddF(pt2[1], pt1[1]), Fix(2)), MulF(r, SinF(theta))),
           MulF(r, CosF(theta))),
      SubF(AddF(DivF(AddF(pt2[2], pt1[2]), Fix(2)), MulF(r, CosF(theta))),
           MulF(r, SinF(theta)))>>

Centre2(pt1, pt2, r, theta) ==
    <<SubF(SubF(DivF(AddF(pt2[1], pt1[1]), Fix(2)), MulF(MulF(Fix(2), r), SinF(theta))),
           MulF(r, CosF(theta))),
      SubF(AddF(DivF(AddF(pt2[2], pt1[2]), Fix(2)), MulF(MulF(Fix(2), r), CosF(theta))),
           MulF(r, SinF(theta)))>>

Centre3(pt1, pt2, r, theta) ==
    <<AddF(SubF(DivF(AddF(pt2[1], pt1[1]), Fix(2)), MulF(MulF(Fix(2), r), SinF(theta))),
           MulF(r, CosF(theta))),
      AddF(AddF(DivF(AddF(pt2[2], pt1[2]), Fix(2)), MulF(MulF(Fix(2), r), CosF(theta))),
           MulF(r, SinF(theta)))>>

Centre4(pt1, pt2, r, theta) ==
    <<SubF(pt2[1], MulF(r, CosF(theta))), SubF(pt2[2], MulF(r, SinF(theta)))>>

\* q = linspace(theta, theta + pi/2, 50) and t = q[::-1], indexed from 1.
Q(theta, i) == Linspace(theta, AddF(theta, HalfPi), NumSamples, i)

T(theta, i) == Q(theta, NumSamples + 1 - i)

\* The four arcs in pixels: sample i of each coordinate array.
\* The first arc sampled over q and not over the reversed t; the property
\* of C3 tells it from the arc of line 280.
Arc1XForward(x11, r, theta, i) == AddF(MulF(r, CosF(AddF(Q(theta, i), HalfPi))), x11)

Arc1X(x11, r, theta, i) == AddF(MulF(r, CosF(AddF(T(theta, i), HalfPi))), x11)

Arc1Y(y11, r, theta, i) == AddF(MulF(r, SinF(AddF(T(theta, i), HalfPi))), y11)

Arc2X(x22, r, theta, i) == AddF(MulF(r, CosF(SubF(Q(theta, i), HalfPi))), x22)

Arc2Y(y22, r, theta, i) == AddF(MulF(r, SinF(SubF(Q(theta, i), HalfPi))), y22)

Arc3X(x33, r, theta, i) == AddF(MulF(r, CosF(AddF(Q(theta, i), Pi))), x33)

Arc3Y(y33, r, theta, i) == AddF(MulF(r, SinF(AddF(Q(theta, i), Pi))), y33)

Arc4X(x44, r, theta, i) == AddF(MulF(r, CosF(T(theta, i))), x44)

Arc4Y(y44, r, theta, i) == AddF(MulF(r, SinF(T(theta, i))), y44)

\* A pixel coordinate back in the units of its axis: divided by the pixel
\* scale, the lower limit added, and SignedExp on a logarithmic axis.
ToData(v, lim, pxscale, scale) ==
    LET w == AddF(DivF(v, pxscale), lim[1])
    IN  IF HasLog(scale) THEN SignedExp(w) ELSE w

\* Lines 138 to 244: the transformed limits of the two axes and the pixels
\* per unit along each.
Viewport(a, bool_auto) ==
    [ax_xlim |-> TransformedLim(a.xscale, a.xlim),
     ax_ylim |-> TransformedLim(a.yscale, a.ylim),
     xscale |-> PixelScale(GetAxSize(a)[1], TransformedLim(a.xscale, a.xlim), bool_auto),
     yscale |-> PixelScale(GetAxSize(a)[2], TransformedLim(a.yscale, a.ylim), bool_auto)]

\* Lines 144 to 232 and 247 to 250: an endpoint p in pixels, in viewport v.
PixelPoint(a, v, p) ==
    <<ToPixels(Transformed(a.xscale, p[1]), v.ax_xlim, v.xscale),
      ToPixels(Transformed(a.yscale, p[2]), v.ax_ylim, v.yscale)>>

\* Lines 259 to 272: the four centres.
Centres(pt1, pt2, r, theta) ==
    <<Centre1(pt1, pt2, r, theta), Centre2(pt1, pt2, r, theta),
      Centre3(pt1, pt2, r, theta), Centre4(pt1, pt2, r, theta)>>

\* The geometry of one call, lines 274 to 425 and 437, from the locals
\* computed before it (the viewport v, p1 and p2 in pixels, theta, r and the
\* centres c): the locals, and what the call returns: theta, the summit
\* (the last sample of arc2) and the four arcs in the units of the axes,
\* each <<xs, ys>>.
BraceGeometry(a, v, pt1, pt2, theta, r, c) ==
    LET X(u) == ToData(u, v.ax_xlim, v.xscale, a.xscale)
        Y(u) == ToData(u, v.ax_ylim, v.yscale, a.yscale)
    IN  [theta |-> theta,
         r |-> r,
         ax_xlim |-> v.ax_xlim,
         ax_ylim |-> v.ax_ylim,
         xscale |-> v.xscale,
         yscale |-> v.yscale,
         pt1 |-> pt1,
         pt2 |-> pt2,
         centres |-> c,
         summit |-> <<X(Arc2X(c[2][1], r, theta, NumSamples)),
                      Y(Arc2Y(c[2][2], r, theta, NumSamples))>>,
         arc1 |-> <<[i \in 1..NumSamples |-> X(Arc1X(c[1][1], r, theta, i))],
                    [i \in 1..NumSamples |-> Y(Arc1Y(c[1][2], r, theta, i))]>>,
         arc2 |-> <<[i \in 1..NumSamples |-> X(Arc2X(c[2][1], r, theta, i))],
                    [i \in 1..NumSamples |-> Y(Arc2Y(c[2][2], r, theta, i))]>>,
         arc3 |-> <<[i \in 1..NumSamples |-> X(Arc3X(c[3][1], r, theta, i))],
                    [i \in 1..NumSamples |-> Y(Arc3Y(c[3][2], r, theta, i))]>>,
         arc4 |-> <<[i \in 1..NumSamples |-> X(Arc4X(c[4][1], r, theta, i))],
                    [i \in 1..NumSamples |-> Y(Arc4Y(c[4][2], r, theta, i))]>>]

\* int(int_line_num): an argument is [isint, n], an int n or something
\* int() cannot convert (isint false), on which it raises ValueError.
CanInt(x) == x.isint

IntOf(x) == x.n

\* "\n" * n: empty for n <= 0.
RECURSIVE Newlines(_)
Newlines(n) == IF n <= 0 THEN "" ELSE "\n" \o Newlines(n - 1)

\* ang: theta in degrees, from 0 to 360.
LabelAngle(theta) == ModF(DegreesF(theta), Fix(360))

\* Where the label goes: text_offset is [pair, v], a pair v = <<dx, dy>>
\* added to the summit, or a scalar v = <<s>> resolved along theta.
TextPosition(summit, text_offset, theta) ==
    IF text_offset.pair
    THEN <<AddF(summit[1], text_offset.v[1]), AddF(summit[2], text_offset.v[2])>>
    ELSE <<AddF(summit[1], MulF(text_offset.v[1], SinF(theta))),
           SubF(summit[2], MulF(text_offset.v[1], CosF(theta)))>>

\* A first if that leaves 90 degrees out; the property of C10 tells it
\* from the if of line 456.
LabelFirstIfOpen(ang, str_text, str_temp) ==
    IF GeF(ang, 0) /\ LtF(ang, Fix(90)) THEN str_text \o str_temp ELSE str_text

\* The first if of the label, lines 456 to 460: the text after it.
LabelFirstIf(ang, str_text, str_temp) ==
    IF GeF(ang, 0) /\ LeF(ang, Fix(90)) THEN str_text \o str_temp ELSE str_text

\* A second if that takes 90 degrees in; the property of C9 tells it from
\* the if of line 462.
LabelSecondIfClosed(ang, str_text, str_temp) ==
    IF GeF(ang, Fix(90)) /\ LtF(ang, Fix(270))
    THEN [rotation |-> AddF(ang, Fix(180)), s |-> str_temp \o str_text]
    ELSE IF GeF(ang, Fix(270)) /\ LeF(ang, Fix(360))
    THEN [rotation |-> ang, s |-> str_text \o str_temp]
    ELSE [rotation |-> ang, s |-> str_text]

\* The if / elif / else that follows, lines 462 to 476: the rotation and
\* the text handed to ax.text.
LabelSecondIf(ang, str_text, str_temp) ==
    IF GtF(ang, Fix(90)) /\ LtF(ang, Fix(270))
    THEN [rotation |-> AddF(ang, Fix(180)), s |-> str_temp \o str_text]
    ELSE IF GeF(ang, Fix(270)) /\ LeF(ang, Fix(360))
    THEN [rotation |-> ang, s |-> str_text \o str_temp]
    ELSE [rotation |-> ang, s |-> str_text]

\* The rotation and the padded text of the label.
Label(ang, str_text, str_temp) ==
    LabelSecondIf(ang, LabelFirstIf(ang, str_text, str_temp), str_temp)

\* ax.plot(xs, ys): one more line on the axes.
Plot(ls, xs, ys) == Append(ls, [x |-> xs, y |-> ys])

\* The six ax.plot calls, lines 428 to 435: the four arcs, then the two
\* connecting segments.
PlotBrace(ls, g) ==
    LET n == NumSamples
        l1 == Plot(ls, g.arc1[1], g.arc1[2])
        l2 == Plot(l1, g.arc2[1], g.arc2[2])
        l3 == Plot(l2, g.arc3[1], g.arc3[2])
        l4 == Plot(l3, g.arc4[1], g.arc4[2])
        l5 == Plot(l4, <<g.arc1[1][n], g.arc2[1][2]>>, <<g.arc1[2][n], g.arc2[2][2]>>)
    IN  Plot(l5, <<g.arc3[1][n], g.arc4[1][2]>>, <<g.arc3[2][n], g.arc4[2][2]>>)

(***************************************************************************)
(* The state: one axes, what is drawn on it, and one call.                 *)
(***************************************************************************)
VARIABLES
    ax,      \* the axes the caller passes
    lines,   \* the lines drawn on the axes, in the order of the ax.plot calls
    texts,   \* the labels drawn on the axes
    pc,      \* "ready", then "returned" or "raised"
    args,    \* the arguments of the call
    locals,  \* the locals of the call when it returned
    ret,     \* what the call returned
    exc,     \* the exception the call raised, "" when none
    rt,      \* one coordinate taken through SignedLog and SignedExp
    tk,      \* add_ticks: the axes, the arguments and the outcome of a call
    ef,      \* export_fig: the arguments, the files saved and the outcome
    gd,      \* generate_data: the file system, the arguments and the outcome
    sp       \* add_subplots: the arguments, the axes made and the outcome

vars == <<ax, lines, texts, pc, args, locals, ret, exc, rt, tk, ef, gd, sp>>

\* The variables of add_curly_brace and of the round trip.
braceVars == <<ax, lines, texts, pc, args, locals, ret, exc, rt>>

\* A function that is not called in a behaviour.
Idle == [pc |-> "idle"]

\* The largest int_line_num tried.
MaxLineNum == 2

\* The largest k_r tried, in tenths.
MaxCurvature == 2

\* The axes tried: the unit square of 100 x 100 pixels, a viewport of
\* another aspect, a logarithmic x, a logarithmic y, a symlog x whose limits
\* -2 and 1/2 transform to the same number, and an axes of no width.
Linear100 ==
    [xscale |-> "linear", yscale |-> "linear", xlim |-> <<0, Fix(1)>>,
     ylim |-> <<0, Fix(1)>>, width |-> Fix(100), height |-> Fix(100)]

AxesTried ==
    { Linear100,
      [Linear100 EXCEPT !.xlim = <<Fix(-2), Fix(2)>>, !.ylim = <<Fix(-1), Fix(1)>>,
                        !.width = Fix(200)],
      [Linear100 EXCEPT !.xscale = "log", !.xlim = <<Fix(1), Fix(100)>>,
                        !.ylim = <<Fix(-1), Fix(1)>>],
      [Linear100 EXCEPT !.yscale = "log", !.ylim = <<Fix(1), Fix(100)>>],
      [Linear100 EXCEPT !.xscale = "symlog", !.xlim = <<Fix(-2), Fix(1) \div 2>>],
      [Linear100 EXCEPT !.width = 0] }

\* The points tried; a list of one number is a malformed point.
Points ==
    { <<0, 0>>, <<Fix(1), 0>>, <<0, Fix(1)>>, <<Fix(1), Fix(1)>>,
      <<Fix(1) \div 2, Fix(1) \div 4>> }

PointArgs == Points \cup { <<0>> }

\* A far endpoint, (100, 0), tried as p2 on a logarithmic x axis only: on the
\* other axes its brace leaves the numbers of this model.
FarPoints(a) == IF a.xscale = "log" THEN { <<Fix(100), 0>> } ELSE {}

\* The curvatures tried: -0.1, 0, 0.1, ...
Curvatures == { i * (Scale \div 10) : i \in -1..MaxCurvature }

Strings == { "", "A" }

LineNums == [isint : {TRUE}, n : 0..MaxLineNum] \cup { [isint |-> FALSE, n |-> 0] }

Offsets == { [pair |-> TRUE, v |-> <<0, 0>>], [pair |-> FALSE, v |-> <<Scale \div 10>>] }

NoArgs ==
    [p1 |-> <<>>, p2 |-> <<>>, k_r |-> 0, bool_auto |-> TRUE, str_text |-> "",
     int_line_num |-> [isint |-> TRUE, n |-> 0],
     text_offset |-> [pair |-> TRUE, v |-> <<0, 0>>]]

NoLocals ==
    [r |-> 0, ax_xlim |-> <<>>, ax_ylim |-> <<>>, xscale |-> 0, yscale |-> 0,
     pt1 |-> <<>>, pt2 |-> <<>>, centres |-> <<>>]

NoReturn ==
    [theta |-> 0, summit |-> <<>>, arc1 |-> <<>>, arc2 |-> <<>>, arc3 |-> <<>>,
     arc4 |-> <<>>]

\* The locals of a call, and the tuple it returns (line 497).
LocalsOf(g) ==
    [r |-> g.r, ax_xlim |-> g.ax_xlim, ax_ylim |-> g.ax_ylim, xscale |-> g.xscale,
     yscale |-> g.yscale, pt1 |-> g.pt1, pt2 |-> g.pt2, centres |-> g.centres]

Returned(g) ==
    [theta |-> g.theta, summit |-> g.summit, arc1 |-> g.arc1, arc2 |-> g.arc2,
     arc3 |-> g.arc3, arc4 |-> g.arc4]

NoRoundTrip == [stage |-> "none", v |-> 0, w |-> 0, u |-> 0]

Init ==
    /\ rt = NoRoundTrip
    /\ tk = Idle
    /\ ef = Idle
    /\ gd = Idle
    /\ sp = Idle
    /\ ax \in AxesTried
    /\ lines = <<>>
    /\ texts = <<>>
    /\ pc = "ready"
    /\ args = NoArgs
    /\ locals = NoLocals
    /\ ret = NoReturn
    /\ exc = ""

\* The call raises before anything is drawn.
RaiseEarly(a, e) ==
    /\ pc' = "raised"
    /\ exc' = e
    /\ args' = a
    /\ UNCHANGED <<ax, lines, texts, locals, ret>>

\* add_curly_brace(fig, ax, p1, p2, k_r, bool_auto, str_text, int_line_num,
\* fontdict, text_offset): the whole call.
AddCurlyBrace ==
    /\ pc = "ready"
    /\ UNCHANGED <<rt, tk, ef, gd, sp>>
    /\ \E p1 \in PointArgs, p2 \in PointArgs \cup FarPoints(ax), k_r \in Curvatures,
          bool_auto \in BOOLEAN :
         IF Len(p1) < 2 \/ Len(p2) < 2
         THEN RaiseEarly([NoArgs EXCEPT !.p1 = p1, !.p2 = p2, !.k_r = k_r,
                                        !.bool_auto = bool_auto], "IndexError")
         ELSE \E v \in { Viewport(ax, bool_auto) } :
              \E pt1 \in { PixelPoint(ax, v, p1) }, pt2 \in { PixelPoint(ax, v, p2) } :
              \E theta \in { BraceAngle(pt1, pt2) }, r \in { BraceRadius(pt1, pt2, k_r) } :
              \E c \in { Centres(pt1, pt2, r, theta) } :
              \E g \in { BraceGeometry(ax, v, pt1, pt2, theta, r, c) } :
              \E drawn \in { PlotBrace(lines, g) } :
                  \E str_text \in Strings, int_line_num \in LineNums, text_offset \in Offsets :
                    /\ args' = [p1 |-> p1, p2 |-> p2, k_r |-> k_r, bool_auto |-> bool_auto,
                                str_text |-> str_text, int_line_num |-> int_line_num,
                                text_offset |-> text_offset]
                    /\ lines' = drawn
                    /\ ax' = ax
                    /\ IF str_text = ""
                       THEN /\ texts' = texts
                            /\ pc' = "returned"
                            /\ locals' = LocalsOf(g)
                            /\ ret' = Returned(g)
                            /\ exc' = ""
                       ELSE IF ~CanInt(int_line_num)
                       THEN /\ texts' = texts
                            /\ pc' = "raised"
                            /\ locals' = NoLocals
                            /\ ret' = NoReturn
                            /\ exc' = "ValueError"
                       ELSE LET str_temp == Newlines(IntOf(int_line_num))
                                ang == LabelAngle(g.theta)
                                pos == TextPosition(g.summit, text_offset, g.theta)
                                lab == Label(ang, str_text, str_temp)
                            IN  /\ texts' = Append(texts, [x |-> pos[1], y |-> pos[2],
                                                           s |-> lab.s,
                                                           rotation |-> lab.rotation])
                                /\ pc' = "returned"
                                /\ locals' = LocalsOf(g)
                                /\ ret' = Returned(g)
                                /\ exc' = ""

Next == AddCurlyBrace

Spec == Init /\ [][Next]_vars

(***************************************************************************)
(* The transform of a logarithmic axis and what the code applies to the    *)
(* output, on one coordinate: v, then w = SignedLog(v), then               *)
(* u = SignedExp(w).                                                       *)
(***************************************************************************)

\* The largest |v| tried; v goes by quarters.
MaxValue == 5

Values == { i * (Scale \div 4) : i \in (-4 * MaxValue)..(4 * MaxValue) }

RoundTripInit ==
    /\ tk = Idle
    /\ ef = Idle
    /\ gd = Idle
    /\ sp = Idle
    /\ rt \in [stage : {"in"}, v : Values, w : {0}, u : {0}]
    /\ ax = Linear100
    /\ lines = <<>>
    /\ texts = <<>>
    /\ pc = "idle"
    /\ args = NoArgs
    /\ locals = NoLocals
    /\ ret = NoReturn
    /\ exc = ""

\* Lines 146 to 156: the transform of a coordinate.
ApplySignedLog ==
    /\ rt.stage = "in"
    /\ rt' = [rt EXCEPT !.stage = "log", !.w = SignedLog(rt.v)]
    /\ UNCHANGED <<ax, lines, texts, pc, args, locals, ret, exc, tk, ef, gd, sp>>

\* Lines 307 to 317: what an output coordinate goes through.
ApplySignedExp ==
    /\ rt.stage = "log"
    /\ rt' = [rt EXCEPT !.stage = "exp", !.u = SignedExp(rt.w)]
    /\ UNCHANGED <<ax, lines, texts, pc, args, locals, ret, exc, tk, ef, gd, sp>>

\* add_curly_brace is not called.
BraceIdle ==
    /\ ax = Linear100
    /\ lines = <<>>
    /\ texts = <<>>
    /\ pc = "idle"
    /\ args = NoArgs
    /\ locals = NoLocals
    /\ ret = NoReturn
    /\ exc = ""
    /\ rt = NoRoundTrip

RoundTripNext == ApplySignedLog \/ ApplySignedExp

SpecRoundTrip == RoundTripInit /\ [][RoundTripNext]_vars

(***************************************************************************)
(* What the claims speak of.                                               *)
(***************************************************************************)

\* The rounding two results of the model may differ by, in units of 1/Scale.
Tol == 1 + 1

\* a and b are the same number up to rounding.
Close(a, b) == IsFin(a) /\ IsFin(b) /\ Abs(a - b) <= Tol

ClosePoint(p, q) == Close(p[1], q[1]) /\ Close(p[2], q[2])

\* Sample i of a returned arc <<xs, ys>>, as a point.
Sample(arc, i) == <<arc[1][i], arc[2][i]>>

\* The first and the last point of a drawn line.
FirstPoint(l) == <<l.x[1], l.y[1]>>

LastPoint(l) == <<l.x[Len(l.x)], l.y[Len(l.y)]>>

\* The viewport the contract asks for: a pixel size that is not 0, and on
\* both axes transformed limits that differ.
ValidViewport(a) ==
    /\ a.width # 0
    /\ a.height # 0
    /\ TransformedLim(a.xscale, a.xlim)[1] # TransformedLim(a.xscale, a.xlim)[2]
    /\ TransformedLim(a.yscale, a.ylim)[1] # TransformedLim(a.yscale, a.ylim)[2]

LinearAxes(a) == ~HasLog(a.xscale) /\ ~HasLog(a.yscale)

\* a is b up to the rounding of a logarithm followed by an exponential,
\* which grows with the size of b.
CloseRel(a, b) == IsFin(a) /\ IsFin(b) /\ Abs(a - b) <= Tol + Abs(b) \div 1000

\* A call that went through the geometry and returned.
Drew == pc = "returned"

\* A call that returned and drew a label, and the label.
Labelled == pc = "returned" /\ args.str_text # "" /\ Len(texts) > 0

TheLabel == texts[Len(texts)]

\* Every sample of the returned arc lies at the point c.
AllAt(arc, c) == \A i \in 1..NumSamples : ClosePoint(Sample(arc, i), c)

\* A pixel position in data units (lines 292 to 300 and the inverse
\* transform after them).
PixelToData(a, c) ==
    <<ToData(c[1], locals.ax_xlim, locals.xscale, a.xscale),
      ToData(c[2], locals.ax_ylim, locals.yscale, a.yscale)>>

(***************************************************************************)
(* C1: for every coordinate v, negative, zero or positive, the signed      *)
(* logarithm of lines 146 to 156 followed by the inverse the code applies  *)
(* to its output (lines 307 to 317) gives v back, up to rounding.           *)
(* The code does not do so for 0 < |v| <= 1: the logarithm of such a v is  *)
(* negative or 0, and the inverse reads the sign of the logarithm as the   *)
(* sign of v.                                                              *)
(***************************************************************************)
C1_RoundTrip == rt.stage = "exp" => CloseRel(rt.u, rt.v)

(***************************************************************************)
(* C2: for p1 # p2 and k_r > 0 on a valid viewport, every adjoining pair   *)
(* of the drawn pieces arc1, segment 1, arc2, arc3, segment 2, arc4 meets. *)
(* Stated here on linear axes, where the drawn coordinates are the         *)
(* pixel geometry itself; the claim is wider.  The lines are in the order  *)
(* of the ax.plot calls: the four arcs, then the two segments.             *)
(***************************************************************************)
C2_PiecesMeet ==
    (Drew /\ LinearAxes(ax) /\ ValidViewport(ax) /\ args.p1 # args.p2 /\ args.k_r > 0) =>
        /\ ClosePoint(LastPoint(lines[1]), FirstPoint(lines[5]))
        /\ ClosePoint(LastPoint(lines[5]), FirstPoint(lines[2]))
        /\ ClosePoint(LastPoint(lines[2]), FirstPoint(lines[3]))
        /\ ClosePoint(LastPoint(lines[3]), FirstPoint(lines[6]))
        /\ ClosePoint(LastPoint(lines[6]), FirstPoint(lines[4]))

(***************************************************************************)
(* C3: on linear axes with a valid viewport, p1 # p2 and k_r > 0, the      *)
(* first sample of arc1 is p1 and the last sample of arc4 is p2, in data   *)
(* units.                                                                  *)
(***************************************************************************)
C3_RunsFromP1ToP2 ==
    (Drew /\ LinearAxes(ax) /\ ValidViewport(ax) /\ args.p1 # args.p2 /\ args.k_r > 0) =>
        /\ ClosePoint(Sample(ret.arc1, 1), args.p1)
        /\ ClosePoint(Sample(ret.arc4, NumSamples), args.p2)

\* C3 at work: a slanted brace on a viewport scaled to pixels, whose first
\* arc leaves p1 and whose last arc comes to p2 from elsewhere.
C3_Witness ==
    /\ Drew /\ LinearAxes(ax) /\ ValidViewport(ax) /\ args.bool_auto
    /\ args.p1 = <<0, 0>> /\ args.p2 = <<Fix(1) \div 2, Fix(1) \div 4>> /\ args.k_r > 0
    /\ ~ClosePoint(Sample(ret.arc1, NumSamples), args.p1)
    /\ ~ClosePoint(Sample(ret.arc4, 1), args.p2)
    /\ ClosePoint(Sample(ret.arc1, 1), args.p1)

(***************************************************************************)
(* C4: on linear axes with a valid viewport, p1 # p2 and k_r > 0, the      *)
(* summit returned is the last sample of arc2 and, in pixels, the midpoint *)
(* of p1 and p2 moved by 2r along the normal (-dy, dx) / dist of the       *)
(* direction p1 -> p2, with r = k_r * dist, that is by 2 k_r (-dy, dx);    *)
(* for p1 = (0,0), p2 = (1,0), the viewport [0,1] x [0,1] of 100 x 100     *)
(* pixels and k_r = 0.1 the summit is (0.5, 0.2).                          *)
(***************************************************************************)
C4_Summit ==
    (Drew /\ LinearAxes(ax) /\ ValidViewport(ax) /\ args.p1 # args.p2 /\ args.k_r > 0) =>
        LET dx == locals.pt2[1] - locals.pt1[1]
            dy == locals.pt2[2] - locals.pt1[2]
            mid == <<(locals.pt1[1] + locals.pt2[1]) \div 2,
                     (locals.pt1[2] + locals.pt2[2]) \div 2>>
            top == <<mid[1] - MulFix(2 * dy, args.k_r), mid[2] + MulFix(2 * dx, args.k_r)>>
        IN  /\ ret.summit = Sample(ret.arc2, NumSamples)
            /\ ClosePoint(ret.summit, PixelToData(ax, top))
            /\ (ax = Linear100 /\ args.p1 = <<0, 0>> /\ args.p2 = <<Fix(1), 0>>
                  /\ args.k_r = Scale \div 10 /\ args.bool_auto)
               => ClosePoint(ret.summit, <<Fix(1) \div 2, Fix(2) \div 10>>)

\* C4 at work: the example of the claim, with its summit at (0.5, 0.2).
C4_Witness ==
    /\ Drew /\ ax = Linear100 /\ args.bool_auto
    /\ args.p1 = <<0, 0>> /\ args.p2 = <<Fix(1), 0>> /\ args.k_r = Scale \div 10
    /\ locals.r = Fix(10)
    /\ ret.summit = <<Fix(1) \div 2, Fix(2) \div 10>>

(***************************************************************************)
(* C5: when p1 = p2 on a valid viewport, the call returns a brace of       *)
(* radius 0: every sample of the four arcs, and the summit, are at p1.     *)
(* The code does not do so on a logarithmic axis when a coordinate of p1   *)
(* has 0 < |v| <= 1, because of the inverse transform of C1.               *)
(***************************************************************************)
C5_ZeroRadiusAtP1 ==
    (Drew /\ ValidViewport(ax) /\ args.p1 = args.p2) =>
        /\ AllAt(ret.arc1, args.p1)
        /\ AllAt(ret.arc2, args.p1)
        /\ AllAt(ret.arc3, args.p1)
        /\ AllAt(ret.arc4, args.p1)
        /\ ClosePoint(ret.summit, args.p1)

(***************************************************************************)
(* C6: when the viewport is degenerate (transformed limits that are equal  *)
(* on an axis, or a pixel width or height of 0) a call ends in an          *)
(* InvalidViewport error and computes no geometry.  The code checks        *)
(* nothing: it divides by 0 and returns.                                   *)
(***************************************************************************)
C6_InvalidViewport ==
    (pc # "ready" /\ pc # "idle" /\ ~ValidViewport(ax) /\ Len(args.p1) = 2 /\ Len(args.p2) = 2) =>
        (pc = "raised" /\ exc = "InvalidViewport" /\ lines = <<>>)

(***************************************************************************)
(* C7: a call that raises has drawn no arc, no segment and no label; a     *)
(* call that does not raise has drawn the whole brace and returned it.     *)
(* The code converts int_line_num after the six ax.plot calls, so a        *)
(* ValueError of int() leaves the brace on the axes.                       *)
(***************************************************************************)
C7_NoPartialResult ==
    /\ pc = "raised" => (lines = <<>> /\ texts = <<>>)
    /\ pc = "returned" => (Len(lines) = 6 /\ ret # NoReturn
                            /\ Len(texts) = (IF args.str_text = "" THEN 0 ELSE 1))

C9_RotationAtRightAngles ==
    Labelled =>
        LET a == LabelAngle(ret.theta)
            pad == Newlines(IntOf(args.int_line_num))
        IN  /\ a = 0 => (TheLabel.rotation = 0 /\ TheLabel.s = args.str_text \o pad)
            /\ a = Fix(90) => (TheLabel.rotation = Fix(90) /\ TheLabel.s = args.str_text \o pad)
            /\ a = Fix(180) => (TheLabel.rotation = Fix(360) /\ TheLabel.s = pad \o args.str_text)
            /\ a = Fix(270) => (TheLabel.rotation = Fix(270) /\ TheLabel.s = args.str_text \o pad)

\* C9 at work: a label on a brace that points to the left, with blank lines
\* before the text.
C9_Witness ==
    /\ Labelled
    /\ LabelAngle(ret.theta) = Fix(180)
    /\ IntOf(args.int_line_num) > 0
    /\ TheLabel.rotation = Fix(360)
    /\ TheLabel.s = Newlines(IntOf(args.int_line_num)) \o args.str_text

(***************************************************************************)
(* C9 as the claim has it: the rotation handed to ax.text at 0, 90, 180    *)
(* and 270 degrees is 0, 90, 0 and 270 degrees, with the padding after     *)
(* the text at 0, 90 and 270 degrees and before it at 180.                 *)
(***************************************************************************)
C9_RotationZeroAt180 ==
    Labelled =>
        LET a == LabelAngle(ret.theta)
            pad == Newlines(IntOf(args.int_line_num))
        IN  /\ a = 0 => (TheLabel.rotation = 0 /\ TheLabel.s = args.str_text \o pad)
            /\ a = Fix(90) => (TheLabel.rotation = Fix(90) /\ TheLabel.s = args.str_text \o pad)
            /\ a = Fix(180) => (TheLabel.rotation = 0 /\ TheLabel.s = pad \o args.str_text)
            /\ a = Fix(270) => (TheLabel.rotation = Fix(270) /\ TheLabel.s = args.str_text \o pad)

(***************************************************************************)
(* C10: for every orientation a in [0, 360) and int_line_num >= 0: if a is *)
(* in [0, 90] or [270, 360) the rotation is a and the text is followed by  *)
(* int_line_num line breaks; if a is in (90, 270) the rotation is a + 180  *)
(* and the text is preceded by int_line_num line breaks; the padding is    *)
(* there once (the text is longer by int_line_num), and the rotation       *)
(* modulo 360 is in [0, 90] or [270, 360).                                 *)
(***************************************************************************)
C10_LabelRule ==
    (Labelled /\ IsFin(LabelAngle(ret.theta))) =>
        LET a == LabelAngle(ret.theta)
            n == IntOf(args.int_line_num)
            pad == Newlines(n)
            m == TheLabel.rotation % Fix(360)
        IN  /\ a >= 0 /\ a < Fix(360)
            /\ (a <= Fix(90) \/ a >= Fix(270)) =>
                  (TheLabel.rotation = a /\ TheLabel.s = args.str_text \o pad)
            /\ (a > Fix(90) /\ a < Fix(270)) =>
                  (TheLabel.rotation = a + Fix(180) /\ TheLabel.s = pad \o args.str_text)
            /\ Len(TheLabel.s) = Len(args.str_text) + n
            /\ m <= Fix(90) \/ m >= Fix(270)

\* C10 at work: a brace that points up and to the left, the label turned by
\* half a turn and the blank lines before the text.
C10_Witness ==
    /\ Labelled
    /\ LabelAngle(ret.theta) > Fix(90) /\ LabelAngle(ret.theta) < Fix(180)
    /\ IntOf(args.int_line_num) > 0
    /\ TheLabel.rotation > Fix(270)
    /\ TheLabel.s = Newlines(IntOf(args.int_line_num)) \o args.str_text

\* Every x of the returned arc lies in [lo, hi], up to rounding.
XWithin(arc, lo, hi) ==
    \A i \in 1..NumSamples :
        /\ IsFin(arc[1][i])
        /\ arc[1][i] >= lo - Tol
        /\ arc[1][i] <= hi + Tol + hi \div 1000

\* The call of C11: a logarithmic x axis from 1 to 100, p1 = (1, 0),
\* p2 = (100, 0), the default curvature 0.1 and pixel scaling.
LogScenario ==
    /\ Drew /\ ax.xscale = "log" /\ ax.xlim = <<Fix(1), Fix(100)>>
    /\ args.p1 = <<Fix(1), 0>> /\ args.p2 = <<Fix(100), 0>>
    /\ args.k_r = Scale \div 10 /\ args.bool_auto

(***************************************************************************)
(* C11: on a logarithmic x axis with p1 = (1, 0) and p2 = (100, 0), every  *)
(* x of every returned arc sample lies in [1, 100].  The code returns      *)
(* x = 0 for the first sample of arc1: the brace starts at p1, whose       *)
(* logarithm is 0, and the inverse transform of C1 turns 0 into 0.0.       *)
(***************************************************************************)
C11_XWithinLimits ==
    LogScenario =>
        /\ XWithin(ret.arc1, Fix(1), Fix(100))
        /\ XWithin(ret.arc2, Fix(1), Fix(100))
        /\ XWithin(ret.arc3, Fix(1), Fix(100))
        /\ XWithin(ret.arc4, Fix(1), Fix(100))

(***************************************************************************)
(* add_ticks.                                                              *)
(*                                                                         *)
(* tk is [pc, exc, xlim, ylim, before, length, ticks, args]: the limits of *)
(* the axes, the length of its original tick lines on each axis before and *)
(* after the call, and the tick lines the call drew, each                  *)
(* [axis, pos, lo, hi].  An optional argument is [isnone, v].              *)
(***************************************************************************)

\* The largest num_ticks tried, and the largest number of positions.
MaxTicks == 3

MaxPositions == 3

\* Line 113: the number of ticks when neither num_ticks nor positions is given.
DefaultNumTicks == 5

\* Lines 127 to 131: 0.002 and 0.018.
DefaultLow == (2 * Scale) \div 1000

DefaultHigh == (18 * Scale) \div 1000

None == [isnone |-> TRUE, v |-> 0]

Some(x) == [isnone |-> FALSE, v |-> x]

AxisArgs == { "x", "y", "z" }

NumTicksArgs == { None } \cup { Some(n) : n \in -1..MaxTicks }

\* The positions tried: none, or the first k of 0.25, 0.5, 0.75, ...
NoPositions == [isnone |-> TRUE, v |-> <<>>]

PositionsArgs ==
    { NoPositions } \cup { Some([i \in 1..k |-> i * (Scale \div 4)]) : k \in 0..MaxPositions }

SpanArgs == { None, Some(Scale \div 10) }

\* The lengths the original tick lines may have before the call.
TickLengths == { 0, Fix(4) }

\* positions[:n] of Python: the first n, or all but the last -n when n < 0.
SliceTo(positions, n) ==
    IF n >= 0 THEN SubSeq(positions, 1, Min(n, Len(positions)))
    ELSE SubSeq(positions, 1, Max(Len(positions) + n, 0))

\* Lines 102 to 123: the positions of the ticks, when the call does not raise.
TickPositions(t, axis, num_ticks, positions) ==
    IF ~positions.isnone
    THEN IF ~num_ticks.isnone /\ num_ticks.v <= Len(positions.v)
         THEN SliceTo(positions.v, num_ticks.v)
         ELSE positions.v
    ELSE IF axis = "x"
         THEN [i \in 1..(IF num_ticks.isnone THEN DefaultNumTicks ELSE num_ticks.v) |->
                 Linspace(t.xlim[1], t.xlim[2],
                          IF num_ticks.isnone THEN DefaultNumTicks ELSE num_ticks.v, i)]
         ELSE [i \in 1..(IF num_ticks.isnone THEN DefaultNumTicks ELSE num_ticks.v) |->
                 Linspace(t.ylim[1], t.ylim[2],
                          IF num_ticks.isnone THEN DefaultNumTicks ELSE num_ticks.v, i)]

\* Lines 126 to 131: an end of the tick lines, given or the default.
OrDefault(x, d) == IF x.isnone THEN d ELSE x.v

\* Lines 134 to 156: one axvline or axhline for each position.
DrawTicks(ticks, axis, positions, lo, hi) ==
    ticks \o [i \in 1..Len(positions) |->
                 [axis |-> axis, pos |-> positions[i], lo |-> lo, hi |-> hi]]

\* Lines 96 to 99: ax.tick_params(axis=axis, which="both", length=0).
TickParams(length, axis, origin_viz) ==
    IF origin_viz = FALSE THEN [length EXCEPT ![axis] = 0] ELSE length

TicksInit ==
    /\ BraceIdle
    /\ ef = Idle
    /\ gd = Idle
    /\ sp = Idle
    /\ \E lx \in TickLengths, ly \in TickLengths :
         tk = [pc |-> "ready", exc |-> "",
               xlim |-> <<0, Fix(1)>>, ylim |-> <<Fix(-1), Fix(1)>>,
               before |-> [x |-> lx, y |-> ly], length |-> [x |-> lx, y |-> ly],
               ticks |-> <<>>,
               args |-> [axis |-> "x", origin_viz |-> FALSE, num_ticks |-> None,
                         positions |-> NoPositions, ymin |-> None, ymax |-> None,
                         xmin |-> None, xmax |-> None]]

\* add_ticks(ax, axis, origin_viz, num_ticks, positions, ..., ymin, ymax,
\* xmin, xmax, ...): the whole call.
AddTicks ==
    /\ tk.pc = "ready"
    /\ UNCHANGED <<braceVars, ef, gd, sp>>
    /\ \E axis \in AxisArgs, origin_viz \in BOOLEAN, num_ticks \in NumTicksArgs,
          positions \in PositionsArgs, ymin \in SpanArgs, ymax \in SpanArgs,
          xmin \in SpanArgs, xmax \in SpanArgs :
         \E a \in { [axis |-> axis, origin_viz |-> origin_viz, num_ticks |-> num_ticks,
                     positions |-> positions, ymin |-> ymin, ymax |-> ymax,
                     xmin |-> xmin, xmax |-> xmax] } :
           IF axis \notin { "x", "y" }
           THEN tk' = [tk EXCEPT !.pc = "raised", !.exc = "ValueError", !.args = a]
           ELSE IF positions.isnone /\ OrDefault(num_ticks, DefaultNumTicks) < 2
           THEN tk' = [tk EXCEPT !.pc = "raised", !.exc = "ValueError", !.args = a,
                                 !.length = TickParams(tk.length, axis, origin_viz)]
           ELSE tk' = [tk EXCEPT
                         !.pc = "returned", !.args = a,
                         !.length = TickParams(tk.length, axis, origin_viz),
                         !.ticks = DrawTicks(tk.ticks, axis,
                                     TickPositions(tk, axis, num_ticks, positions),
                                     IF axis = "x" THEN OrDefault(ymin, DefaultLow)
                                                   ELSE OrDefault(xmin, DefaultLow),
                                     IF axis = "x" THEN OrDefault(ymax, DefaultHigh)
                                                   ELSE OrDefault(xmax, DefaultHigh))]

TicksNext == AddTicks

SpecTicks == TicksInit /\ [][TicksNext]_vars

\* The positions of the tick lines drawn, in the order drawn.
DrawnPositions == [i \in 1..Len(tk.ticks) |-> tk.ticks[i].pos]

(***************************************************************************)
(* C12: a call of add_ticks that returns has set the length of the         *)
(* original tick lines of its axis to 0 if origin_viz is True, and has     *)
(* left the lengths as they were if origin_viz is False.  The code does    *)
(* the reverse: line 96 tests origin_viz == False.                         *)
(***************************************************************************)
C12_OriginalTicks ==
    tk.pc = "returned" =>
        IF tk.args.origin_viz
        THEN tk.length[tk.args.axis] = 0
        ELSE tk.length = tk.before

(***************************************************************************)
(* C13: when positions is given, a call that returns has drawn one tick    *)
(* line at each of the positions given, whatever num_ticks is.  The code   *)
(* keeps only the first num_ticks positions when num_ticks is given and    *)
(* is at most their number (lines 104 to 107).                             *)
(***************************************************************************)
C13_PositionsWin ==
    (tk.pc = "returned" /\ ~tk.args.positions.isnone) =>
        DrawnPositions = tk.args.positions.v

(***************************************************************************)
(* C14: a call of add_ticks with an axis other than 'x' and 'y', or with   *)
(* num_ticks < 2, raises ValueError.  The code tests num_ticks only when   *)
(* positions is None (lines 110 to 115).                                   *)
(***************************************************************************)
C14_RaisesValueError ==
    (tk.pc \in {"returned", "raised"}
       /\ (tk.args.axis \notin {"x", "y"}
             \/ (~tk.args.num_ticks.isnone /\ tk.args.num_ticks.v < 2))) =>
        (tk.pc = "raised" /\ tk.exc = "ValueError")

(***************************************************************************)
(* export_fig.                                                             *)
(*                                                                         *)
(* ef is [pc, exc, files, printed, args]: the files plt.savefig wrote, in  *)
(* order, each [filename, format, dpi, bbox_inches], and the messages      *)
(* printed.  The argument formats is [kind, v] with kind "none", "str" or  *)
(* "list" and v the list of the names (one name for a string).             *)
(***************************************************************************)

\* The longest list of formats tried.
MaxFormats == 2

\* Lines 75 to 83: the keys of format_params.
SupportedFormats == { "png", "jpg", "bmp", "pdf", "svg", "tiff", "eps" }

\* Lines 76, 77 and 81: the formats that take dpi.
DpiFormats == { "png", "jpg", "tiff" }

\* The names of formats tried.
FormatNames == { "png", "JPG", "pdf", "gif" }

\* str.lower() on the names tried.
Lower(fmt) == IF fmt = "JPG" THEN "jpg" ELSE fmt

FormatsArgs ==
    { [kind |-> "none", v |-> <<>>] }
      \cup { [kind |-> "str", v |-> <<f>>] : f \in FormatNames }
      \cup { [kind |-> "list", v |-> l] :
               l \in UNION { [1..n -> FormatNames] : n \in 0..MaxFormats } }

\* The output paths tried; "" stands for None.
OutputPaths == { "", "out/fig", "out/fig.png" }

\* The path of the calling script without its extension (lines 67 to 70).
CallerPath == "scripts/plot"

\* os.path.splitext(path)[0] on the paths tried.
SplitExt(path) == IF path = "out/fig.png" THEN "out/fig" ELSE path

\* Lines 60 to 63: the list of formats.
FormatList(formats) == IF formats.kind = "none" THEN <<"jpg">> ELSE formats.v

\* Lines 66 to 72: the path without extension.
BasePath(output_path) == IF output_path = "" THEN CallerPath ELSE SplitExt(output_path)

\* Lines 91 to 96: the file one supported format gives.
SavedFile(base, fmt, dpi, bbox_inches) ==
    [filename |-> base \o "." \o Lower(fmt),
     format |-> Lower(fmt),
     dpi |-> IF Lower(fmt) \in DpiFormats THEN dpi ELSE 0,
     bbox_inches |-> bbox_inches]

\* Lines 86 to 96: the loop over the formats, from format i on.
RECURSIVE ExportLoop(_, _, _, _, _, _)
ExportLoop(e, list, i, base, dpi, bbox_inches) ==
    IF i > Len(list) THEN e
    ELSE IF Lower(list[i]) \notin SupportedFormats
    THEN ExportLoop([e EXCEPT !.printed = Append(e.printed, list[i])],
                    list, i + 1, base, dpi, bbox_inches)
    ELSE ExportLoop([e EXCEPT !.files = Append(e.files,
                                          SavedFile(base, list[i], dpi, bbox_inches))],
                    list, i + 1, base, dpi, bbox_inches)

ExportInit ==
    /\ BraceIdle
    /\ tk = Idle
    /\ gd = Idle
    /\ sp = Idle
    /\ ef = [pc |-> "ready", exc |-> "", files |-> <<>>, printed |-> <<>>,
             args |-> [formats |-> [kind |-> "none", v |-> <<>>], output_path |-> "",
                       dpi |-> 300, bbox_inches |-> "tight"]]

\* export_fig(formats, output_path, dpi, bbox_inches): the whole call.
ExportFig ==
    /\ ef.pc = "ready"
    /\ UNCHANGED <<braceVars, tk, gd, sp>>
    /\ \E formats \in FormatsArgs, output_path \in OutputPaths, dpi \in { 300, 600 },
          bbox_inches \in { "tight", "" } :
         ef' = [ExportLoop(ef, FormatList(formats), 1, BasePath(output_path), dpi,
                           bbox_inches)
                  EXCEPT !.pc = "returned",
                         !.args = [formats |-> formats, output_path |-> output_path,
                                   dpi |-> dpi, bbox_inches |-> bbox_inches]]

ExportNext == ExportFig

SpecExport == ExportInit /\ [][ExportNext]_vars

(***************************************************************************)
(* C15: a call of export_fig with a format that is not one of png, jpg,    *)
(* bmp, pdf, svg, tiff, eps (in any case of letters) raises ValueError.    *)
(* The code prints a message, skips the format and returns.                *)
(***************************************************************************)
C15_UnsupportedFormat ==
    (ef.pc \in {"returned", "raised"}
       /\ \E i \in 1..Len(ef.args.formats.v) :
            Lower(ef.args.formats.v[i]) \notin SupportedFormats) =>
        (ef.pc = "raised" /\ ef.exc = "ValueError")

(***************************************************************************)
(* generate_data.                                                          *)
(*                                                                         *)
(* gd is [pc, exc, before, file, printed, args]: the file at output_path   *)
(* before the call and now, each [exists, content], whether the success    *)
(* message was printed, and the arguments.  An entry of fields_config is   *)
(* [keys, name, type, scale, min]: the keys the dict has and the values of *)
(* those the code reads.  The directory of output_path exists.  What       *)
(* random draws is left out: a content is the header, the number of rows   *)
(* and the delimiter.                                                      *)
(***************************************************************************)

\* The longest fields_config tried, and the largest num_samples.
MaxFields == 2

MaxSamples == 2

\* Line 90: the types of a field.
FieldTypes == { "int", "float", "string", "date", "bool", "choice" }

Field(keys, name, type, scale, min) ==
    [keys |-> keys, name |-> name, type |-> type, scale |-> scale, min |-> min]

\* The entries tried: two that are right, one without name, one without
\* type, one of a type that does not exist, one logarithmic from 0 and one
\* of a scale that does not exist.
FieldsTried ==
    { Field({"name", "type"}, "a", "int", "linear", 0),
      Field({"name", "type"}, "b", "string", "linear", 0),
      Field({"type"}, "", "int", "linear", 0),
      Field({"name"}, "c", "", "linear", 0),
      Field({"name", "type"}, "d", "text", "linear", 0),
      Field({"name", "type", "scale", "min"}, "e", "float", "log", 0),
      Field({"name", "type", "scale"}, "f", "int", "sqrt", 0) }

FieldsConfigs == UNION { [1..n -> FieldsTried] : n \in 0..MaxFields }

NoFile == [exists |-> FALSE, content |-> <<>>]

\* A file that is there before the call.
OldFile == [exists |-> TRUE, content |-> <<"old">>]

\* A variant of the test of line 75 that refuses when overwrite is set; the
\* property of C16 tells it from the test of the code.
MustNotOverwriteInverted(file, overwrite) == file.exists /\ overwrite

\* Line 75: output_path.exists() and not overwrite.
MustNotOverwrite(file, overwrite) == file.exists /\ ~overwrite

\* A variant of the checks of an entry without the check of the type; the
\* property of C17 tells it from the checks of the code.
FieldErrorNoType(config) ==
    IF "name" \notin config.keys THEN "ValueError"
    ELSE IF "type" \notin config.keys THEN "ValueError"
    ELSE ""

\* Lines 86 to 93: the checks of one entry, "" when it passes.
FieldError(config) ==
    IF "name" \notin config.keys THEN "ValueError"
    ELSE IF "type" \notin config.keys THEN "ValueError"
    ELSE IF config.type \notin FieldTypes THEN "ValueError"
    ELSE ""

\* Lines 81 to 93: the first error of the configuration, from entry i on.
RECURSIVE ConfigError(_, _)
ConfigError(fields_config, i) ==
    IF Len(fields_config) = 0 THEN "ValueError"
    ELSE IF i > Len(fields_config) THEN ""
    ELSE IF FieldError(fields_config[i]) # "" THEN FieldError(fields_config[i])
    ELSE ConfigError(fields_config, i + 1)

\* Lines 108 to 127: what drawing a value of one entry raises, "" when
\* nothing: a logarithmic scale from min <= 0 raises ValueError, and a scale
\* that is neither "log" nor "linear" leaves value unassigned.
DrawError(config) ==
    IF "type" \in config.keys /\ config.type \in { "int", "float" }
    THEN IF config.scale = "log" /\ config.min <= 0 THEN "ValueError"
         ELSE IF config.scale \notin { "log", "linear" } THEN "UnboundLocalError"
         ELSE ""
    ELSE ""

\* Lines 103 to 156: the first error of the first row, from entry i on; no
\* row is drawn when num_samples <= 0.
RECURSIVE RowError(_, _, _)
RowError(fields_config, num_samples, i) ==
    IF num_samples <= 0 \/ i > Len(fields_config) THEN ""
    ELSE IF DrawError(fields_config[i]) # "" THEN DrawError(fields_config[i])
    ELSE RowError(fields_config, num_samples, i + 1)

\* Lines 101 and 159 to 164: the file written.
Written(fields_config, num_samples, delimiter) ==
    [exists |-> TRUE,
     content |-> <<[i \in 1..Len(fields_config) |-> fields_config[i].name],
                   Max(num_samples, 0), delimiter>>]

DataInit ==
    /\ BraceIdle
    /\ tk = Idle
    /\ ef = Idle
    /\ sp = Idle
    /\ \E f \in { NoFile, OldFile } :
         gd = [pc |-> "ready", exc |-> "", before |-> f, file |-> f, printed |-> FALSE,
               args |-> [num_samples |-> 0, fields_config |-> <<>>, overwrite |-> FALSE,
                         delimiter |-> ","]]

\* generate_data(output_path, num_samples, fields_config, random_seed,
\* overwrite, delimiter, quotechar): the whole call.
GenerateData ==
    /\ gd.pc = "ready"
    /\ UNCHANGED <<braceVars, tk, ef, sp>>
    /\ \E num_samples \in 0..MaxSamples, fields_config \in FieldsConfigs,
          overwrite \in BOOLEAN, delimiter \in { ",", ";" } :
         \E a \in { [num_samples |-> num_samples, fields_config |-> fields_config,
                     overwrite |-> overwrite, delimiter |-> delimiter] } :
           IF MustNotOverwrite(gd.file, overwrite)
           THEN gd' = [gd EXCEPT !.pc = "raised", !.exc = "FileExistsError", !.args = a]
           ELSE IF ConfigError(fields_config, 1) # ""
           THEN gd' = [gd EXCEPT !.pc = "raised", !.exc = ConfigError(fields_config, 1),
                                 !.args = a]
           ELSE IF RowError(fields_config, num_samples, 1) # ""
           THEN gd' = [gd EXCEPT !.pc = "raised",
                                 !.exc = RowError(fields_config, num_samples, 1),
                                 !.args = a]
           ELSE gd' = [gd EXCEPT !.pc = "returned", !.args = a, !.printed = TRUE,
                                 !.file = Written(fields_config, num_samples, delimiter)]

DataNext == GenerateData

SpecData == DataInit /\ [][DataNext]_vars

\* The call is over.
DataDone == gd.pc \in { "returned", "raised" }

\* A configuration that is not valid: empty, or with an entry without name,
\* without type, or of a type that is none of the six.
InvalidConfig(fields_config) ==
    \/ Len(fields_config) = 0
    \/ \E i \in 1..Len(fields_config) :
         \/ "name" \notin fields_config[i].keys
         \/ "type" \notin fields_config[i].keys
         \/ fields_config[i].type \notin { "int", "float", "string", "date", "bool", "choice" }

(***************************************************************************)
(* C16: when the file at output_path exists and overwrite is False, the    *)
(* call raises FileExistsError and leaves the file as it was, whatever     *)
(* the other arguments are.                                                *)
(***************************************************************************)
C16_FileExists ==
    (DataDone /\ gd.before.exists /\ ~gd.args.overwrite) =>
        (gd.pc = "raised" /\ gd.exc = "FileExistsError" /\ gd.file = gd.before
           /\ ~gd.printed)

\* C16 at work: the file is there, overwrite is False and the configuration
\* is not valid either; the call raised FileExistsError.
C16_Witness ==
    /\ DataDone /\ gd.before = OldFile /\ ~gd.args.overwrite
    /\ InvalidConfig(gd.args.fields_config)
    /\ gd.args.num_samples > 0
    /\ gd.exc = "FileExistsError"
    /\ gd.file = OldFile

Lowercase ==
    <<"a", "b", "c", "d", "e", "f", "g", "h", "i", "j", "k", "l", "m",
      "n", "o", "p", "q", "r", "s", "t", "u", "v", "w", "x", "y", "z">>

Uppercase ==
    <<"A", "B", "C", "D", "E", "F", "G", "H", "I", "J", "K", "L", "M",
      "N", "O", "P", "Q", "R", "S", "T", "U", "V", "W", "X", "Y", "Z">>

DigitChars == <<"0", "1", "2", "3", "4", "5", "6", "7", "8", "9">>

\* Line 495: the largest number of a numerical label.
MaxNum == 26

Range(seq) == { seq[i] : i \in 1..Len(seq) }

\* seq.index(x), counted from 0.
IndexOf(seq, x) == (CHOOSE i \in 1..Len(seq) : seq[i] = x) - 1

\* seq[k:] of Python.
SliceFrom(seq, k) ==
    IF k >= 0 THEN SubSeq(seq, Min(k, Len(seq)) + 1, Len(seq))
    ELSE SubSeq(seq, Max(Len(seq) + k, 0) + 1, Len(seq))

\* Lines 476 to 480 and 486 to 490: label i (from 0) of the letters left,
\* the last letter when they run out.
LetterAt(available_chars, i) ==
    IF i < Len(available_chars) THEN available_chars[i + 1]
    ELSE available_chars[Len(available_chars)]

\* Lines 497 to 502: label i (from 0) of the numbers from start_num.
NumberAt(start_num, i) ==
    IF start_num + i <= MaxNum THEN ToString(start_num + i) ELSE ToString(MaxNum)

\* Lines 469 to 505: the labels before prefix and suffix.
BaseLabels(total_subplots, text_type) ==
    IF text_type \in Range(Lowercase)
    THEN [i \in 1..total_subplots |->
            LetterAt(SliceFrom(Lowercase, IndexOf(Lowercase, text_type)), i - 1)]
    ELSE IF text_type \in Range(Uppercase)
    THEN [i \in 1..total_subplots |->
            LetterAt(SliceFrom(Uppercase, IndexOf(Uppercase, text_type)), i - 1)]
    ELSE IF text_type \in Range(DigitChars)
    THEN [i \in 1..total_subplots |-> NumberAt(IndexOf(DigitChars, text_type), i - 1)]
    ELSE SliceTo(Lowercase, total_subplots)

\* The characters of a string put together.
RECURSIVE Join(_)
Join(chars) == IF Len(chars) = 0 THEN "" ELSE Head(chars) \o Join(Tail(chars))

\* str() of a tuple of strings, as an f-string formats it: (), ('a',),
\* ('a', 'b'), ...
RECURSIVE TupleItems(_)
TupleItems(t) ==
    IF Len(t) = 1 THEN "'" \o t[1] \o "'"
    ELSE "'" \o Head(t) \o "', " \o TupleItems(Tail(t))

TupleStr(t) ==
    IF Len(t) = 0 THEN "()"
    ELSE IF Len(t) = 1 THEN "(" \o TupleItems(t) \o ",)"
    ELSE "(" \o TupleItems(t) \o ")"

\* What an f-string makes of a slice of text_fix.
Formatted(kind, slice) == IF kind = "str" THEN Join(slice) ELSE TupleStr(slice)

\* A variant that takes the slice of a tuple for its elements put together;
\* the property of C19 does not depend on it.
AffixedJoined(labels, text_fix, text_index) ==
    IF text_fix.kind = "none" THEN labels
    ELSE [i \in 1..Len(labels) |->
            Join(SliceTo(text_fix.v, OrDefault(text_index, 1)))
              \o labels[i]
              \o Join(SliceFrom(text_fix.v, OrDefault(text_index, 1)))]

\* Lines 508 to 512: the labels with prefix and suffix.
Affixed(labels, text_fix, text_index) ==
    IF text_fix.kind = "none" THEN labels
    ELSE [i \in 1..Len(labels) |->
            Formatted(text_fix.kind, SliceTo(text_fix.v, OrDefault(text_index, 1)))
              \o labels[i]
              \o Formatted(text_fix.kind, SliceFrom(text_fix.v, OrDefault(text_index, 1)))]

\* A variant of the spacing that puts text_step empty strings, not
\* text_step - 1, between two labels; the property of C19 tells it from
\* the spacing of the code.
SteppedWide(labels, text_step) ==
    IF text_step = 1 \/ Len(labels) = 0 THEN labels
    ELSE [k \in 1..((Len(labels) - 1) * (Max(text_step, 1) + 1) + 1) |->
            IF (k - 1) % (Max(text_step, 1) + 1) = 0
            THEN labels[(k - 1) \div (Max(text_step, 1) + 1) + 1]
            ELSE ""]

\* Lines 515 to 524: text_step - 1 empty strings after every label but the
\* last (none when text_step - 1 is not positive).
Stepped(labels, text_step) ==
    IF text_step = 1 \/ Len(labels) = 0 THEN labels
    ELSE [k \in 1..((Len(labels) - 1) * Max(text_step, 1) + 1) |->
            IF (k - 1) % Max(text_step, 1) = 0
            THEN labels[(k - 1) \div Max(text_step, 1) + 1]
            ELSE ""]

\* _get_text(nrows, ncols, text_type, text_fix, text_index, text_step).
GetText(nrows, ncols, text_type, text_fix, text_index, text_step) ==
    Stepped(Affixed(BaseLabels(nrows * ncols, text_type), text_fix, text_index), text_step)

(***************************************************************************)
(* add_subplots: the axes, their offsets and their scaling.                *)
(*                                                                         *)
(* A position is [x0, y0, width, height] in figure fractions (fixed        *)
(* point).  An argument that is None, a pair or a list of pairs is         *)
(* [kind, v] with kind "none", "pair", "list" or "bad" (any other type)    *)
(* and v the entries, each [kind, v] with kind "none", "pair" or "bad"     *)
(* and v a pair of optional numbers; a "pair" argument has one entry.      *)
(***************************************************************************)

MaxGrid == 2

MaxIndex == 1

MaxStep == 3

\* _to_slice(spec): a row or column given as an integer or as (start, end).
ToSlice(spec) ==
    IF spec.kind = "int" THEN <<spec.v[1], spec.v[1] + 1>> ELSE <<spec.v[1], spec.v[2]>>

\* The position GridSpec gives to the cells gs[row_spec, col_spec]: the
\* figure is divided evenly, row 0 at the top; margins and spacing are left
\* out.  A slice is cut to the size of the grid.
Cell(nrows, ncols, row_spec, col_spec) ==
    [x0 |-> (Min(col_spec[1], ncols) * Fix(1)) \div ncols,
     y0 |-> Fix(1) - (Min(row_spec[2], nrows) * Fix(1)) \div nrows,
     width |-> ((Min(col_spec[2], ncols) - Min(col_spec[1], ncols)) * Fix(1)) \div ncols,
     height |-> ((Min(row_spec[2], nrows) - Min(row_spec[1], nrows)) * Fix(1)) \div nrows]

\* Lines 159 to 163: one axes for each cell, row by row.
AutoAxes(nrows, ncols) ==
    [k \in 1..(nrows * ncols) |->
       Cell(nrows, ncols,
            <<(k - 1) \div ncols, ((k - 1) \div ncols) + 1>>,
            <<(k - 1) % ncols, ((k - 1) % ncols) + 1>>)]

\* The first entry of gs_loc that is not a pair, 0 when there is none.
FirstBadLoc(gs_loc) ==
    IF \A i \in 1..Len(gs_loc) : gs_loc[i].ok THEN 0
    ELSE CHOOSE i \in 1..Len(gs_loc) :
           /\ ~gs_loc[i].ok
           /\ \A j \in 1..(i - 1) : gs_loc[j].ok

\* Lines 165 to 176: one axes for each of the first n entries of gs_loc.
LocAxes(nrows, ncols, gs_loc, n) ==
    [k \in 1..n |-> Cell(nrows, ncols, ToSlice(gs_loc[k].row), ToSlice(gs_loc[k].col))]

\* Lines 153 to 176: the axes made, and whether an entry of gs_loc stopped
\* the call.
CreateAxes(nrows, ncols, gs_loc) ==
    IF gs_loc.isnone THEN [ok |-> TRUE, v |-> AutoAxes(nrows, ncols)]
    ELSE IF FirstBadLoc(gs_loc.v) = 0
    THEN [ok |-> TRUE, v |-> LocAxes(nrows, ncols, gs_loc.v, Len(gs_loc.v))]
    ELSE [ok |-> FALSE, v |-> LocAxes(nrows, ncols, gs_loc.v, FirstBadLoc(gs_loc.v) - 1)]

\* Lines 325 to 327 and 339 to 341: None gives way to the default.
FillPair(var, default_vars) ==
    <<OrDefault(var[1], default_vars[1]), OrDefault(var[2], default_vars[2])>>

\* Lines 330 to 346: the entries of a list, then defaults up to nplots.
ProcessedVars(nplots, entries, default_vars) ==
    [k \in 1..Max(nplots, Len(entries)) |->
       IF k > Len(entries) \/ entries[k].kind = "none" THEN default_vars
       ELSE FillPair(entries[k].v, default_vars)]

\* _get_vars(nplots, input_vars, default_vars): a pair for each axes, or
\* ValueError.
GetVars(nplots, input_vars, default_vars) ==
    IF input_vars.kind = "none"
    THEN [ok |-> TRUE, v |-> [k \in 1..nplots |-> default_vars]]
    ELSE IF input_vars.kind = "pair"
    THEN [ok |-> TRUE, v |-> [k \in 1..nplots |-> FillPair(input_vars.v[1].v, default_vars)]]
    ELSE IF /\ input_vars.kind = "list"
            /\ Len(input_vars.v) = 2
            /\ \A k \in 1..2 : input_vars.v[k].kind = "none"
    THEN [ok |-> TRUE, v |-> [k \in 1..nplots |-> default_vars]]
    ELSE IF input_vars.kind = "list" /\ \A k \in 1..Len(input_vars.v) : input_vars.v[k].kind # "bad"
    THEN [ok |-> TRUE, v |-> ProcessedVars(nplots, input_vars.v, default_vars)]
    ELSE [ok |-> FALSE, v |-> <<>>]

\* Lines 180 to 184: every axes moved by its offset.
Moved(axes, ax_offsets_list) ==
    [k \in 1..Len(axes) |->
       [axes[k] EXCEPT !.x0 = @ + ax_offsets_list[k][1], !.y0 = @ + ax_offsets_list[k][2]]]

\* The four anchors of lines 395 to 402.
ValidAnchors == { <<0, 0>>, <<0, 1>>, <<1, 0>>, <<1, 1>> }

\* Lines 390 to 410 for one axes whose anchor is valid.
ScaledOne(pos, scale, anchor) ==
    [x0 |-> IF anchor[1] = 0 THEN pos.x0
            ELSE pos.x0 + pos.width - MulFix(pos.width, scale[1]),
     y0 |-> IF anchor[2] = 0 THEN pos.y0
            ELSE pos.y0 + pos.height - MulFix(pos.height, scale[1]),
     width |-> MulFix(pos.width, scale[1]),
     height |-> MulFix(pos.height, scale[1])]

\* The first axes whose anchor is not valid, 0 when there is none.
FirstBadAnchor(n, ax_scales_anchors_list) ==
    IF \A k \in 1..n : ax_scales_anchors_list[k] \in ValidAnchors THEN 0
    ELSE CHOOSE k \in 1..n :
           /\ ax_scales_anchors_list[k] \notin ValidAnchors
           /\ \A j \in 1..(k - 1) : ax_scales_anchors_list[j] \in ValidAnchors

\* _apply_scale(ax_list, ax_scales_list, ax_scales_anchors_list): the axes
\* before the first one with an anchor that is not valid are scaled.
ApplyScale(axes, ax_scales_list, ax_scales_anchors_list) ==
    [ok |-> FirstBadAnchor(Len(axes), ax_scales_anchors_list) = 0,
     v |-> [k \in 1..Len(axes) |->
              IF \/ FirstBadAnchor(Len(axes), ax_scales_anchors_list) = 0
                 \/ k < FirstBadAnchor(Len(axes), ax_scales_anchors_list)
              THEN ScaledOne(axes[k], ax_scales_list[k], ax_scales_anchors_list[k])
              ELSE axes[k]]]

\* Lines 210 to 217: one text for each axes that the labels reach.
AxesTexts(n, labels, text_offsets_list) ==
    [k \in 1..n |->
       IF k <= Len(labels)
       THEN <<[x |-> text_offsets_list[k][1], y |-> text_offsets_list[k][2], s |-> labels[k]]>>
       ELSE <<>>]

(***************************************************************************)
(* add_subplots: the arguments tried and the call.                         *)
(***************************************************************************)

IntSpec(n) == [kind |-> "int", v |-> <<n>>]

TupleSpec(a, b) == [kind |-> "tuple", v |-> <<a, b>>]

\* An entry [row, col] of gs_loc, and an entry that is no pair (a number).
Loc(row, col) == [ok |-> TRUE, row |-> row, col |-> col]

BadLoc == [ok |-> FALSE, row |-> IntSpec(0), col |-> IntSpec(0)]

NoLocs == [isnone |-> TRUE, v |-> <<>>]

\* gs_loc: None, one axes, three axes (one over all columns, one over all
\* rows), and a list whose second entry is no pair.
GsLocArgs ==
    { NoLocs,
      Some(<<Loc(IntSpec(0), IntSpec(0))>>),
      Some(<<Loc(IntSpec(0), IntSpec(0)),
             Loc(IntSpec(0), TupleSpec(0, MaxGrid)),
             Loc(TupleSpec(0, MaxGrid), IntSpec(0))>>),
      Some(<<Loc(IntSpec(0), IntSpec(0)), BadLoc>>) }

PairEntry(x, y) == [kind |-> "pair", v |-> <<x, y>>]

NoneEntry == [kind |-> "none", v |-> <<None, None>>]

BadEntry == [kind |-> "bad", v |-> <<None, None>>]

NoVars == [kind |-> "none", v |-> <<>>]

PairVars(x, y) == [kind |-> "pair", v |-> <<PairEntry(x, y)>>]

ListVars(entries) == [kind |-> "list", v |-> entries]

\* ax_offsets: None, (0.1, None), and a list with an entry that is no pair.
OffsetArgs == { NoVars, PairVars(Some(Fix(1) \div 10), None), ListVars(<<BadEntry>>) }

\* ax_scales: None, (1.5, 0.5), and [(2, 1), None].
ScaleArgs ==
    { NoVars,
      PairVars(Some((3 * Fix(1)) \div 2), Some(Fix(1) \div 2)),
      ListVars(<<PairEntry(Some(Fix(2)), Some(Fix(1))), NoneEntry>>) }

\* ax_scales_anchors: None, (0, 0), (1, None), (1, 0), (2, 0), and
\* [None, (2, 2)].
AnchorArgs ==
    { NoVars, PairVars(Some(0), Some(0)), PairVars(Some(1), None), PairVars(Some(1), Some(0)),
      PairVars(Some(2), Some(0)), ListVars(<<NoneEntry, PairEntry(Some(2), Some(2))>>) }

NoTextType == [isnone |-> TRUE, v |-> ""]

TextTypeArgs == { NoTextType, Some("A"), Some("1"), Some("y") }

NoFix == [kind |-> "none", v |-> <<>>]

\* text_fix: None, "()", ("(", ")") and ("Item-", "").
TextFixArgs ==
    { NoFix, [kind |-> "str", v |-> <<"(", ")">>], [kind |-> "tuple", v |-> <<"(", ")">>],
      [kind |-> "tuple", v |-> <<"Item-", "">>] }

TextIndexArgs == { None } \cup { Some(k) : k \in 0..MaxIndex }

TextStepArgs == 0..MaxStep

\* text_offsets: None and (-0.1, None).
TextOffsetArgs == { NoVars, PairVars(Some(-(Fix(1) \div 10)), None) }

\* The defaults of lines 18 to 28, with labels from "a" for the second.
DefaultGeometry == [ax_offsets |-> NoVars, ax_scales |-> NoVars, ax_scales_anchors |-> NoVars]

PlainText ==
    [text_type |-> Some("a"), text_fix |-> NoFix, text_index |-> None, text_step |-> 1,
     text_offsets |-> NoVars]

GeometryArgs ==
    { [ax_offsets |-> o, ax_scales |-> s, ax_scales_anchors |-> n] :
        o \in OffsetArgs, s \in ScaleArgs, n \in AnchorArgs }

TextArgs ==
    { [text_type |-> t, text_fix |-> f, text_index |-> i, text_step |-> s, text_offsets |-> o] :
        t \in TextTypeArgs, f \in TextFixArgs, i \in TextIndexArgs, s \in TextStepArgs,
        o \in TextOffsetArgs }

\* The calls tried: every geometry with plain labels, and every labelling
\* with the default geometry.
SubplotArgs ==
    { [nrows |-> nrows, ncols |-> ncols, gs_loc |-> gs_loc, g |-> c[1], t |-> c[2]] :
        nrows \in 1..MaxGrid, ncols \in 1..MaxGrid, gs_loc \in GsLocArgs,
        c \in (GeometryArgs \X { PlainText }) \cup ({ DefaultGeometry } \X TextArgs) }

NoTexts(n) == [k \in 1..n |-> <<>>]

SubplotsInit ==
    /\ BraceIdle
    /\ tk = Idle
    /\ ef = Idle
    /\ gd = Idle
    /\ sp = [pc |-> "ready", exc |-> "", cells |-> <<>>, moved |-> <<>>, axes |-> <<>>,
             texts |-> <<>>,
             args |-> [nrows |-> 1, ncols |-> 1, gs_loc |-> NoLocs, g |-> DefaultGeometry,
                       t |-> PlainText]]

\* The call stops with ValueError; the axes made so far stay in the figure.
SubplotsRaise(a, cells, moved, axes) ==
    sp' = [sp EXCEPT !.pc = "raised", !.exc = "ValueError", !.args = a, !.cells = cells,
                     !.moved = moved, !.axes = axes, !.texts = NoTexts(Len(axes))]

SubplotsReturn(a, cells, moved, axes, axes_texts) ==
    sp' = [sp EXCEPT !.pc = "returned", !.args = a, !.cells = cells, !.moved = moved,
                     !.axes = axes, !.texts = axes_texts]

\* add_subplots(tw, th, nrows, ncols, gs_loc, wspace, hspace, ax_offsets,
\* ax_scales, ax_scales_anchors, text_type, text_fix, text_index, text_step,
\* text_offsets, fontsize, fontweight): the whole call.
AddSubplots ==
    /\ sp.pc = "ready"
    /\ UNCHANGED <<braceVars, tk, ef, gd>>
    /\ \E a \in SubplotArgs :
       \E created \in { CreateAxes(a.nrows, a.ncols, a.gs_loc) } :
         IF ~created.ok THEN SubplotsRaise(a, created.v, <<>>, created.v)
         ELSE
           \E offsets \in { GetVars(Len(created.v), a.g.ax_offsets, <<0, 0>>) } :
             IF ~offsets.ok THEN SubplotsRaise(a, created.v, <<>>, created.v)
             ELSE
               \E moved \in { Moved(created.v, offsets.v) },
                  scales \in { GetVars(Len(created.v), a.g.ax_scales, <<Fix(1), Fix(1)>>) },
                  anchors \in { GetVars(Len(created.v), a.g.ax_scales_anchors, <<0, 1>>) } :
                 IF ~scales.ok \/ ~anchors.ok THEN SubplotsRaise(a, created.v, moved, moved)
                 ELSE
                   \E scaled \in { ApplyScale(moved, scales.v, anchors.v) } :
                     IF ~scaled.ok THEN SubplotsRaise(a, created.v, moved, scaled.v)
                     ELSE IF a.t.text_type.isnone
                     THEN SubplotsReturn(a, created.v, moved, scaled.v, NoTexts(Len(scaled.v)))
                     ELSE
                       \E text_offsets_list \in
                            { GetVars(Len(created.v), a.t.text_offsets, <<0, Fix(1)>>) } :
                         IF ~text_offsets_list.ok
                         THEN SubplotsRaise(a, created.v, moved, scaled.v)
                         ELSE SubplotsReturn(a, created.v, moved, scaled.v,
                                AxesTexts(Len(scaled.v),
                                          GetText(a.nrows, a.ncols, a.t.text_type.v,
                                                  a.t.text_fix, a.t.text_index,
                                                  a.t.text_step),
                                          text_offsets_list.v))

SubplotsNext == AddSubplots

SpecSubplots == SubplotsInit /\ [][SubplotsNext]_vars

\* The call came back with labels on the axes.
SubplotsLabelled == sp.pc = "returned" /\ ~sp.args.t.text_type.isnone

\* The label on axes k (from 1), when the axes has one.
LabelOf(k) == sp.texts[k][1].s

\* Label i (from 1) of the sequence that text_type starts.
BaseLabel(i) == BaseLabels(sp.args.nrows * sp.args.ncols, sp.args.t.text_type.v)[i]

\* C18: with text_fix a tuple (prefix, suffix), every panel label is the
\* prefix, then the base label, then the suffix: ("(", ")") with "A" gives
\* "(A)".  The labels looked at are those on the axes at index 0, s, 2s, ...
\* for text_step = s.
C18_TupleAffix ==
    (SubplotsLabelled /\ sp.args.t.text_fix.kind = "tuple") =>
      \A k \in 1..Len(sp.axes) :
        (Len(sp.texts[k]) = 1 /\ (k - 1) % Max(sp.args.t.text_step, 1) = 0) =>
          LabelOf(k) = sp.args.t.text_fix.v[1]
                         \o BaseLabel(((k - 1) \div Max(sp.args.t.text_step, 1)) + 1)
                         \o sp.args.t.text_fix.v[2]

\* Label i (from 1) of the sequence, with prefix and suffix when text_fix
\* is given.
SequenceLabel(i) ==
    Affixed(BaseLabels(sp.args.nrows * sp.args.ncols, sp.args.t.text_type.v),
            sp.args.t.text_fix, sp.args.t.text_index)[i]

ScaleOf(k) == GetVars(Len(sp.axes), sp.args.g.ax_scales, <<Fix(1), Fix(1)>>).v[k]

AnchorOf(k) == GetVars(Len(sp.axes), sp.args.g.ax_scales_anchors, <<0, 1>>).v[k]

\* The corner of a position that an anchor names: 0 is left or bottom, 1
\* is right or top.
Corner(pos, anchor) ==
    <<IF anchor[1] = 0 THEN pos.x0 ELSE pos.x0 + pos.width,
      IF anchor[2] = 0 THEN pos.y0 ELSE pos.y0 + pos.height>>

\* C20: for every axes the width is multiplied by the x_scale and the
\* height by the y_scale of its ax_scales entry, and the corner that its
\* anchor names stays where it was.
C20_ScaleBothWays ==
    sp.pc = "returned" =>
      \A k \in 1..Len(sp.axes) :
        /\ sp.axes[k].width = MulFix(sp.moved[k].width, ScaleOf(k)[1])
        /\ sp.axes[k].height = MulFix(sp.moved[k].height, ScaleOf(k)[2])
        /\ Corner(sp.axes[k], AnchorOf(k)) = Corner(sp.moved[k], AnchorOf(k))

====
